---- MODULE Spec2Model ----
(***************************************************************************)
(* Model of the AI Safety Command Center ingest pipeline: the incident     *)
(* manager (handleRequest, handleResponse, publishAnomaly, closeIncident    *)
(* and the read operations), the anomaly classifier (analyzeMessage) it     *)
(* calls, the HTTP routes that validate ingests, and the Kafka producer     *)
(* whose publish calls may resolve or reject.                               *)
(*                                                                         *)
(* Four specifications share the state:                                    *)
(*   Spec         the routes, the incident manager and its reads           *)
(*   SpecAnalysis the anomaly detector called on its own and by            *)
(*                handleResponse, on messages that reach every rule        *)
(*   SpecBaseline a client recording a request and several responses, so   *)
(*                that the baseline is taken over more than one response   *)
(*   SpecConsumer the Kafka consumer forwarding records to the sink        *)
(*                                                                         *)
(* Time is the wall clock in milliseconds.  An ISO timestamp written by     *)
(* new Date().toISOString() and read back by new Date(ts) is the same       *)
(* millisecond count, so timestamps are kept as millisecond integers.       *)
(* uuidv4() is modelled as a fresh value from a counter.                    *)
(* JavaScript numbers are modelled as exact rationals: an average is a      *)
(* pair [num, den] and every comparison is cross-multiplied.                *)
(***************************************************************************)
EXTENDS Integers, Sequences, FiniteSets, TLC

VARIABLES requests, responses, incidents, published, calls, clock, ticks,
          nextId, started, closes, last, lastIndex, tally, consumer

vars == <<requests, responses, incidents, published, calls, clock, ticks,
          nextId, started, closes, last, lastIndex, tally, consumer>>

(***************************************************************************)
(* Bounds of the model.                                                    *)
(***************************************************************************)
MaxRequests == 3
MaxResponses == 1
MaxInflight == 2
MaxTicks == 1
MaxCloses == 2

(***************************************************************************)
(* Optional values: a JavaScript property that may be undefined.           *)
(***************************************************************************)
None == << >>
Some(v) == << v >>
IsSome(o) == o # << >>
Val(o) == o[1]

\* !x for an optional number: undefined and 0 are falsy.
TruthyNum(o) == IsSome(o) /\ Val(o) # 0

(***************************************************************************)
(* Texts.  A text is described by what the detectors find in it: its       *)
(* length, the substrings a PII pattern matches (each with its category    *)
(* and the offsets where it starts and ends), whether a toxic keyword      *)
(* occurs, whether an injection pattern matches, and whether both          *)
(* 'I am not sure' and 'The answer is' occur.                              *)
(***************************************************************************)
Match(type, from, to) == [type |-> type, from |-> from, to |-> to]

Text(len, pii, toxic, injection, contra) ==
    [len |-> len, pii |-> pii, toxic |-> toxic, injection |-> injection,
     contra |-> contra]

TextEmpty == Text(0, {}, FALSE, FALSE, FALSE)
TextBenign == Text(8, {}, FALSE, FALSE, FALSE)
TextEmail == Text(16, {Match("EMAIL", 0, 16)}, FALSE, FALSE, FALSE)
TextEmailToxic == Text(30, {Match("EMAIL", 5, 21)}, TRUE, FALSE, FALSE)
TextInjection == Text(24, {}, FALSE, TRUE, FALSE)
TextEmailInjection == Text(40, {Match("EMAIL", 24, 40)}, FALSE, TRUE, FALSE)
TextContradiction == Text(36, {}, FALSE, FALSE, TRUE)

\* !text for an optional string: undefined and "" are falsy.
TruthyText(o) == IsSome(o) /\ Val(o).len > 0

(***************************************************************************)
(* Rule constants of the anomaly detector.  A confidence score is kept in  *)
(* hundredths, so the 0.3 of detectHallucination is 30.                    *)
(***************************************************************************)
LatencyTimeoutMs == 30000
CostThreshold == 50
ErrorThreshold == 10
LowConfidence == 30

PII_PATTERNS == <<"EMAIL", "PHONE", "SSN", "CREDIT_CARD", "API_KEY">>

\* A rational number num/den with den > 0.
Rat(num, den) == [num |-> num, den |-> den]

\* (cur - avg) / avg > k/d for a rational avg = a.num/a.den, as the sign of
\* avg decides the direction of the cross-multiplied comparison.
IncreaseAbove(cur, a, k, d) ==
    IF a.num > 0
    THEN d * (cur * a.den - a.num) > k * a.num
    ELSE d * (cur * a.den - a.num) < k * a.num

NoAnomaly == [isAnomaly |-> FALSE, severity |-> None]
Anomaly(sev) == [isAnomaly |-> TRUE, severity |-> sev]

\* The patterns carry the g flag, so each keeps a lastIndex between calls.
ZeroIndex == [k \in {PII_PATTERNS[n] : n \in 1..Len(PII_PATTERNS)} |-> 0]

\* pattern.test(text) on a global pattern: the search starts at lastIndex; a
\* match leaves lastIndex at its end, a failure resets lastIndex to 0.
RegExpTest(text, k, li) ==
    LET ms == {m \in text.pii : m.type = k /\ m.from >= li}
    IN IF ms = {} THEN [result |-> FALSE, lastIndex |-> 0]
       ELSE [result |-> TRUE,
             lastIndex |-> (CHOOSE m \in ms : \A n \in ms : m.from <= n.from).to]

\* A count that leaves the pattern's lastIndex where test() put it.
StringMatchNoReset(text, k, li) ==
    [count |-> Cardinality({m \in text.pii : m.type = k}), lastIndex |-> li]

\* text.match(pattern) on a global pattern: every match of the text, whatever
\* lastIndex was, and lastIndex is 0 afterwards.
StringMatch(text, k, li) ==
    [count |-> Cardinality({m \in text.pii : m.type = k}), lastIndex |-> 0]

\* One pattern's step of detectPII: test, and count the matches on success.
DetectOne(text, k, li) ==
    LET tested == RegExpTest(text, k, li)
    IN IF tested.result
       THEN [result |-> TRUE,
             count |-> StringMatch(text, k, tested.lastIndex).count,
             lastIndex |-> StringMatch(text, k, tested.lastIndex).lastIndex]
       ELSE [result |-> FALSE, count |-> 0, lastIndex |-> tested.lastIndex]

\* detectPII with the patterns' lastIndex li on entry: the categories found,
\* in pattern order and each with its count, and the lastIndex left behind.
detectPII(text, li) ==
    IF ~TruthyText(text) THEN [detected |-> << >>, lastIndex |-> li]
    ELSE LET one(k) == DetectOne(Val(text), k, li[k])
             hits == SelectSeq(PII_PATTERNS, LAMBDA k : one(k).result)
         IN [detected |-> [n \in 1..Len(hits) |->
                              [type |-> hits[n], count |-> one(hits[n]).count]],
             lastIndex |-> [k \in DOMAIN li |-> one(k).lastIndex]]

detectToxicContent(text) == TruthyText(text) /\ Val(text).toxic

detectPromptInjection(text) == TruthyText(text) /\ Val(text).injection

analyzeTokenUsage(currentTokens, averageTokens) ==
    IF averageTokens = 0 THEN NoAnomaly
    ELSE IF IncreaseAbove(currentTokens, Rat(averageTokens, 1), 2, 1)
         THEN Anomaly(None)
    ELSE IF IncreaseAbove(currentTokens, Rat(averageTokens, 1), 3, 2)
         THEN Anomaly(Some("medium"))
    ELSE NoAnomaly

analyzeCostAnomaly(currentCost, avgCost) ==
    IF avgCost = 0 THEN NoAnomaly
    ELSE IF currentCost > CostThreshold THEN Anomaly(None)
    ELSE IF IncreaseAbove(currentCost, Rat(avgCost, 1), 3, 1)
         THEN Anomaly(None)
    ELSE NoAnomaly

\* The thresholds applied to latencyMs / avgLatencyMs, not to the increase.
analyzeLatencyAnomalyByRatio(latencyMs, avgLatencyMs) ==
    IF avgLatencyMs.num = 0 THEN NoAnomaly
    ELSE IF latencyMs > LatencyTimeoutMs THEN Anomaly(None)
    ELSE IF 2 * latencyMs * avgLatencyMs.den > 5 * avgLatencyMs.num
         THEN Anomaly(None)
    ELSE IF 2 * latencyMs * avgLatencyMs.den > 3 * avgLatencyMs.num
         THEN Anomaly(Some("medium"))
    ELSE NoAnomaly

analyzeLatencyAnomaly(latencyMs, avgLatencyMs) ==
    IF avgLatencyMs.num = 0 THEN NoAnomaly
    ELSE IF latencyMs > LatencyTimeoutMs THEN Anomaly(None)
    ELSE IF IncreaseAbove(latencyMs, avgLatencyMs, 5, 2) THEN Anomaly(None)
    ELSE IF IncreaseAbove(latencyMs, avgLatencyMs, 3, 2)
         THEN Anomaly(Some("medium"))
    ELSE NoAnomaly

\* A detectHallucination that takes the confidence score as a percentage.
detectHallucinationPercent(response, confidenceScore) ==
    IF ~TruthyText(response) THEN NoAnomaly
    ELSE IF confidenceScore < 100 * LowConfidence THEN Anomaly(None)
    ELSE IF Val(response).contra THEN Anomaly(None)
    ELSE NoAnomaly

detectHallucination(response, confidenceScore) ==
    IF ~TruthyText(response) THEN NoAnomaly
    ELSE IF confidenceScore < LowConfidence THEN Anomaly(None)
    ELSE IF Val(response).contra THEN Anomaly(None)
    ELSE NoAnomaly

analyzeErrorPattern(errorCount) ==
    IF errorCount > ErrorThreshold THEN Anomaly(None) ELSE NoAnomaly

Finding(type, severity) == [type |-> type, severity |-> severity]

\* x.severity || dflt
SeverityOr(x, dflt) == IF IsSome(x.severity) THEN Val(x.severity) ELSE dflt

\* The message analysed: the spread of the caller's data and the baseline.
Message(prompt, response, tokenCount, avgTokenCount, cost, avgCost, latencyMs, avgLatencyMs, confidenceScore, errorCount) ==
    [prompt |-> prompt, response |-> response, tokenCount |-> tokenCount,
     avgTokenCount |-> avgTokenCount, cost |-> cost, avgCost |-> avgCost,
     latencyMs |-> latencyMs, avgLatencyMs |-> avgLatencyMs,
     confidenceScore |-> confidenceScore, errorCount |-> errorCount]

\* The anomalies analyzeMessage pushes, in the order it pushes them, given
\* what detectPII found in the prompt and in the response.
Anomalies(message, piiInRequest, piiInResponse) ==
    LET rPiiReq == IF Len(piiInRequest) > 0
                   THEN <<Finding("PII_IN_REQUEST", "critical")>> ELSE << >>
        rPiiRes == IF Len(piiInResponse) > 0
                   THEN <<Finding("PII_LEAKAGE", "critical")>> ELSE << >>
        rToxic == IF TruthyText(message.response)
                     /\ detectToxicContent(message.response)
                  THEN <<Finding("TOXIC_CONTENT", "high")>> ELSE << >>
        rInject == IF TruthyText(message.prompt)
                      /\ detectPromptInjection(message.prompt)
                   THEN <<Finding("PROMPT_INJECTION", "critical")>> ELSE << >>
        tokenAnomaly == analyzeTokenUsage(Val(message.tokenCount),
                                          Val(message.avgTokenCount))
        rToken == IF IsSome(message.tokenCount) /\ IsSome(message.avgTokenCount)
                     /\ tokenAnomaly.isAnomaly
                  THEN <<Finding("TOKEN_ANOMALY",
                                 SeverityOr(tokenAnomaly, "medium"))>>
                  ELSE << >>
        costAnomaly == analyzeCostAnomaly(Val(message.cost),
                                          Val(message.avgCost))
        rCost == IF IsSome(message.cost) /\ IsSome(message.avgCost)
                    /\ costAnomaly.isAnomaly
                 THEN <<Finding("COST_ANOMALY", "high")>> ELSE << >>
        latencyAnomaly == analyzeLatencyAnomaly(Val(message.latencyMs),
                                                Val(message.avgLatencyMs))
        rLatency == IF IsSome(message.latencyMs) /\ IsSome(message.avgLatencyMs)
                       /\ latencyAnomaly.isAnomaly
                    THEN <<Finding("PERFORMANCE_DEGRADATION",
                                   SeverityOr(latencyAnomaly, "high"))>>
                    ELSE << >>
        hallucination == detectHallucination(message.response,
                                             Val(message.confidenceScore))
        rHalluc == IF TruthyText(message.response)
                      /\ IsSome(message.confidenceScore)
                      /\ hallucination.isAnomaly
                   THEN <<Finding("HALLUCINATION", "high")>> ELSE << >>
        errorAnomaly == analyzeErrorPattern(Val(message.errorCount))
        rError == IF IsSome(message.errorCount) /\ Val(message.errorCount) > 0
                     /\ errorAnomaly.isAnomaly
                  THEN <<Finding("ERROR_SPIKE", "high")>> ELSE << >>
    IN rPiiReq \o rPiiRes \o rToxic \o rInject \o rToken \o rCost
       \o rLatency \o rHalluc \o rError

\* detectPII on the prompt and then on the response, from lastIndex li.
DetectBoth(message, li) ==
    LET inRequest == IF TruthyText(message.prompt)
                     THEN detectPII(message.prompt, li)
                     ELSE [detected |-> << >>, lastIndex |-> li]
        inResponse == IF TruthyText(message.response)
                      THEN detectPII(message.response, inRequest.lastIndex)
                      ELSE [detected |-> << >>,
                            lastIndex |-> inRequest.lastIndex]
    IN [piiInRequest |-> inRequest.detected,
        piiInResponse |-> inResponse.detected,
        lastIndex |-> inResponse.lastIndex]

\* An analyzeMessage that returns the most severe anomalies first.
analyzeMessageBySeverity(message, li) ==
    LET pii == DetectBoth(message, li)
        found == Anomalies(message, pii.piiInRequest, pii.piiInResponse)
    IN [anomalies |->
            SelectSeq(found, LAMBDA f : f.severity = "critical")
            \o SelectSeq(found, LAMBDA f : f.severity = "high")
            \o SelectSeq(found, LAMBDA f : f.severity \notin {"critical", "high"}),
        lastIndex |-> pii.lastIndex]

\* An analyzeMessage that takes an absent confidenceScore as 0.
analyzeMessageDefaulting(message, li) ==
    LET pii == DetectBoth(message, li)
        filled == [message EXCEPT
                     !.confidenceScore = IF IsSome(@) THEN @ ELSE Some(0)]
    IN [anomalies |-> Anomalies(filled, pii.piiInRequest, pii.piiInResponse),
        lastIndex |-> pii.lastIndex]

\* analyzeMessage with the patterns' lastIndex li on entry: the anomalies
\* returned and the lastIndex left behind.
analyzeMessage(message, li) ==
    LET pii == DetectBoth(message, li)
    IN [anomalies |-> Anomalies(message, pii.piiInRequest, pii.piiInResponse),
        lastIndex |-> pii.lastIndex]

(***************************************************************************)
(* The incident manager's store and the calls in flight.                   *)
(*   requests, responses, incidents : metrics.requests / .responses /      *)
(*                                    .incidents, in array order           *)
(*   published : the records the producer has sent to each topic, in send  *)
(*               order                                                     *)
(*   calls     : the handleRequest / handleResponse calls suspended at an  *)
(*               await of a producer publish                               *)
(*   clock     : Date.now(), in ms;  ticks counts its advances             *)
(*   nextId    : the next values uuidv4() returns, for a request and for   *)
(*               an incident                                               *)
(*   started   : number of handleRequest and of handleResponse calls made  *)
(*   closes    : number of closeIncident calls made                        *)
(*   last      : the step just taken and what it returned to its caller    *)
(*   lastIndex : the lastIndex of each global PII pattern of the detector  *)
(*   tally     : number of publishes rejected so far, and of high and      *)
(*               critical findings analyzeMessage returned to              *)
(*               handleResponse so far                                     *)
(*   consumer  : the Kafka consumer and the observability sink (below)     *)
(***************************************************************************)
MsPerMinute == 60000
DefaultCount == 10

\* The amounts, in ms, by which the clock is seen to advance between steps.
ClockSteps == {5 * MsPerMinute, 10 * MsPerMinute}

\* A shouldAlert that takes a medium severity as well.
EscalatesMedium(severity) == severity \in {"critical", "high", "medium"}

\* ['critical', 'high'].includes(anomalyData.severity)
Escalates(severity) == severity \in {"critical", "high"}

NumEscalating(findings) ==
    Cardinality({k \in 1..Len(findings) : Escalates(findings[k].severity)})

\* What a step leaves in last: the operation, what its caller received
\* ("none" while the call is still in flight), a number returned or passed,
\* the finding handled, the incidents returned, the call's progress, whether
\* the publish awaited was rejected, the body posted, and the snapshot a
\* metrics read returned.
Step(op, ret, val, finding, list, call) ==
    [op |-> op, ret |-> ret, val |-> val, finding |-> finding,
     list |-> list, call |-> call, failed |-> FALSE, input |-> None,
     result |-> None]

Failed(step) == [step EXCEPT !.failed = TRUE]
Posted(step, body) == [step EXCEPT !.input = Some(body)]
Returned(step, result) == [step EXCEPT !.result = Some(result)]

\* A call's progress: the body it was given, the findings analyzeMessage
\* returned, how many of them publishAnomaly has handled, the incidents made,
\* whether the request or response was pushed, and the avgLatencyMs of the
\* message handed to analyzeMessage.
NoCall == [data |-> None, found |-> << >>, done |-> 0, made |-> 0,
           retained |-> FALSE, baseline |-> None]

CallInfo(c) ==
    [data |-> Some(c.data), found |-> c.found,
     done |-> Len(c.found) - Len(c.todo), made |-> c.made,
     retained |-> c.retained, baseline |-> c.baseline]

RemoveAt(s, i) == SubSeq(s, 1, i - 1) \o SubSeq(s, i + 1, Len(s))

Event(key, requestId) == [key |-> key, requestId |-> requestId]

\* producer.send to a topic succeeded.
Sent(topic, event) == [published EXCEPT ![topic] = Append(@, event)]

\* The consumer before it has consumed a record:
\*   running  : consumer.run is still handing records to eachMessage
\*   busy     : an eachMessage call is in progress
\*   pending  : what the handler in progress has still to do, in order
\*   consumed : number of records handed to eachMessage
\*   outcomes : how each eachMessage call ended, in order
\*   sink     : the metrics and events the observability sink accepted
\*   logged   : number of errors written with console.error
ConsumerInit ==
    [running |-> TRUE, busy |-> FALSE, pending |-> << >>, consumed |-> 0,
     outcomes |-> << >>, sink |-> [metrics |-> 0, events |-> 0], logged |-> 0]

Init ==
    /\ requests = << >>
    /\ responses = << >>
    /\ incidents = << >>
    /\ published = [requests |-> << >>, responses |-> << >>,
                    anomalies |-> << >>, alerts |-> << >>]
    /\ calls = << >>
    /\ clock = 0
    /\ ticks = 0
    /\ nextId = [request |-> 1, incident |-> 1]
    /\ started = [request |-> 0, response |-> 0]
    /\ closes = 0
    /\ last = Step("init", "none", 0, None, << >>, NoCall)
    /\ lastIndex = ZeroIndex
    /\ tally = [rejected |-> 0, escalating |-> 0]
    /\ consumer = ConsumerInit

\* The wall clock advances.
Tick(d) ==
    /\ ticks < MaxTicks
    /\ clock' = clock + d
    /\ ticks' = ticks + 1
    /\ last' = Step("tick", "none", 0, None, << >>, NoCall)
    /\ UNCHANGED <<requests, responses, incidents, published, calls, nextId,
                   started, closes, lastIndex, tally, consumer>>

(***************************************************************************)
(* Requests.                                                               *)
(***************************************************************************)
RequestBody(userId, model, prompt, cost) ==
    [userId |-> userId, model |-> model, prompt |-> prompt, cost |-> cost]

RequestBodies ==
    { RequestBody(Some("u1"), Some("gpt-x"), Some(TextBenign), Some(1)),
      RequestBody(None, Some("gpt-y"), Some(TextEmailInjection), Some(2)),
      RequestBody(Some("u1"), None, Some(TextBenign), Some(1)),
      RequestBody(Some("u1"), Some("gpt-x"), None, Some(1)) }

\* A handleRequest that numbers the request by the size of the store.
handleRequestByLength(requestData) ==
    LET payload == [requestId |-> Len(requests) + 1,
                    userId |-> IF IsSome(requestData.userId)
                               THEN Val(requestData.userId) ELSE "anonymous",
                    model |-> IF IsSome(requestData.model)
                              THEN Val(requestData.model) ELSE "unknown",
                    prompt |-> requestData.prompt,
                    cost |-> IF TruthyNum(requestData.cost)
                             THEN Val(requestData.cost) ELSE 0]
    IN /\ nextId' = [nextId EXCEPT !.request = @ + 1]
       /\ started' = [started EXCEPT !.request = @ + 1]
       /\ calls' = Append(calls, [kind |-> "request", pc |-> "publishRequest",
                                  payload |-> payload, data |-> requestData,
                                  todo |-> << >>, found |-> << >>,
                                  made |-> 0, retained |-> FALSE,
                                  baseline |-> None])
       /\ UNCHANGED <<requests, responses, incidents, published, clock, ticks,
                      closes, lastIndex, tally, consumer>>

\* handleRequest up to its await of publishRequest.
handleRequest(requestData) ==
    LET payload == [requestId |-> nextId.request,
                    userId |-> IF IsSome(requestData.userId)
                               THEN Val(requestData.userId) ELSE "anonymous",
                    model |-> IF IsSome(requestData.model)
                              THEN Val(requestData.model) ELSE "unknown",
                    prompt |-> requestData.prompt,
                    cost |-> IF TruthyNum(requestData.cost)
                             THEN Val(requestData.cost) ELSE 0]
    IN /\ nextId' = [nextId EXCEPT !.request = @ + 1]
       /\ started' = [started EXCEPT !.request = @ + 1]
       /\ calls' = Append(calls, [kind |-> "request", pc |-> "publishRequest",
                                  payload |-> payload, data |-> requestData,
                                  todo |-> << >>, found |-> << >>,
                                  made |-> 0, retained |-> FALSE,
                                  baseline |-> None])
       /\ UNCHANGED <<requests, responses, incidents, published, clock, ticks,
                      closes, lastIndex, tally, consumer>>

\* The validation with && in place of ||.
RequestInvalidBoth(body) == ~TruthyText(body.prompt) /\ ~IsSome(body.model)

\* !prompt || !model
RequestInvalid(body) == ~TruthyText(body.prompt) \/ ~IsSome(body.model)

\* POST /api/llm/request
PostRequest(body) ==
    /\ started.request < MaxRequests
    /\ Len(calls) < MaxInflight
    /\ IF RequestInvalid(body)
       THEN /\ last' = Posted(Step("postRequest", "rejected", 0, None, << >>,
                                   NoCall), body)
            /\ UNCHANGED <<requests, responses, incidents, published, calls,
                           clock, ticks, nextId, started, closes, lastIndex,
                           tally, consumer>>
       ELSE /\ handleRequest(body)
            /\ last' = Posted(Step("postRequest", "none", 0, None, << >>,
                                   NoCall), body)

\* A push that is lost while another call is in flight: the request then
\* replaces the last one stored.
PublishRequestDoneLosing(i, ok) ==
    /\ i \in 1..Len(calls)
    /\ calls[i].pc = "publishRequest"
    /\ calls' = RemoveAt(calls, i)
    /\ IF ok
       THEN /\ published' = Sent("requests",
                  Event(calls[i].payload.userId,
                        Some(calls[i].payload.requestId)))
            /\ requests' =
                  IF Len(calls) > 1 /\ requests # << >>
                  THEN [requests EXCEPT ![Len(requests)] = calls[i].payload]
                  ELSE Append(requests, calls[i].payload)
            /\ last' = Step("publishRequest", "ok", calls[i].payload.requestId,
                            None, << >>,
                            [CallInfo(calls[i]) EXCEPT !.retained = TRUE])
            /\ UNCHANGED tally
       ELSE /\ last' = Failed(Step("publishRequest", "error", 0, None, << >>,
                                   CallInfo(calls[i])))
            /\ tally' = [tally EXCEPT !.rejected = @ + 1]
            /\ UNCHANGED <<requests, published>>
    /\ UNCHANGED <<responses, incidents, clock, ticks, nextId, started, closes,
                   lastIndex, consumer>>

\* publishRequest resolves (ok) or rejects, and handleRequest runs to its end.
PublishRequestDone(i, ok) ==
    /\ i \in 1..Len(calls)
    /\ calls[i].pc = "publishRequest"
    /\ calls' = RemoveAt(calls, i)
    /\ IF ok
       THEN /\ published' = Sent("requests",
                  Event(calls[i].payload.userId,
                        Some(calls[i].payload.requestId)))
            /\ requests' = Append(requests, calls[i].payload)
            /\ last' = Step("publishRequest", "ok", calls[i].payload.requestId,
                            None, << >>,
                            [CallInfo(calls[i]) EXCEPT !.retained = TRUE])
            /\ UNCHANGED tally
       ELSE /\ last' = Failed(Step("publishRequest", "error", 0, None, << >>,
                                   CallInfo(calls[i])))
            /\ tally' = [tally EXCEPT !.rejected = @ + 1]
            /\ UNCHANGED <<requests, published>>
    /\ UNCHANGED <<responses, incidents, clock, ticks, nextId, started, closes,
                   lastIndex, consumer>>

(***************************************************************************)
(* Responses.                                                              *)
(***************************************************************************)
ResponseData(requestId, response, latencyMs, confidenceScore, tokenCount, avgTokenCount, avgLatencyMs) ==
    [requestId |-> requestId, response |-> response, latencyMs |-> latencyMs,
     confidenceScore |-> confidenceScore, tokenCount |-> tokenCount,
     avgTokenCount |-> avgTokenCount, avgLatencyMs |-> avgLatencyMs,
     prompt |-> None, cost |-> None, avgCost |-> None, errorCount |-> None]

\* What the route destructures from the body and passes on.
RouteData(requestId, response, latencyMs, confidenceScore) ==
    ResponseData(requestId, response, latencyMs, confidenceScore,
                 None, None, None)

ResponseBodies ==
    { RouteData(Some(1), Some(TextBenign), Some(100), Some(90)),
      RouteData(Some(1), Some(TextBenign), None, Some(10)),
      RouteData(Some(7), Some(TextEmailToxic), Some(100), Some(90)),
      RouteData(None, Some(TextBenign), Some(100), Some(90)),
      RouteData(Some(1), None, Some(100), Some(90)) }

\* Payloads a caller of the exported handleResponse can pass and the route
\* cannot: a token count with its average, and a baseline of its own.
DirectResponseData ==
    { ResponseData(Some(1), Some(TextBenign), Some(100), Some(90),
                   Some(400), Some(100), Some(Rat(10, 1))) }

RECURSIVE SumLatency(_)
SumLatency(s) ==
    IF s = << >> THEN 0 ELSE Val(Head(s).latencyMs) + SumLatency(Tail(s))

\* getAverageMetrics('responses') over a responses array: None is {}.
getAverageMetrics(resps) ==
    IF Len(resps) > 0
    THEN LET latencies == SelectSeq(resps, LAMBDA r : TruthyNum(r.latencyMs))
         IN Some(IF Len(latencies) > 0
                 THEN Rat(SumLatency(latencies), Len(latencies))
                 ELSE Rat(0, 1))
    ELSE None

\* { ...getAverageMetrics('responses'), ...responseData }: an avgLatencyMs of
\* the caller wins over the one computed.
analysisPayloadCallerWins(responseData, resps) ==
    LET avg == getAverageMetrics(resps)
    IN Message(responseData.prompt, responseData.response,
               responseData.tokenCount, responseData.avgTokenCount,
               responseData.cost, responseData.avgCost,
               responseData.latencyMs,
               IF IsSome(responseData.avgLatencyMs)
               THEN responseData.avgLatencyMs ELSE avg,
               responseData.confidenceScore, responseData.errorCount)

\* { ...responseData, ...getAverageMetrics('responses') }
analysisPayload(responseData, resps) ==
    LET avg == getAverageMetrics(resps)
    IN Message(responseData.prompt, responseData.response,
               responseData.tokenCount, responseData.avgTokenCount,
               responseData.cost, responseData.avgCost,
               responseData.latencyMs,
               IF IsSome(avg) THEN avg ELSE responseData.avgLatencyMs,
               responseData.confidenceScore, responseData.errorCount)

\* handleResponse up to its await of publishResponse.
handleResponse(responseData) ==
    /\ started' = [started EXCEPT !.response = @ + 1]
    /\ calls' = Append(calls, [kind |-> "response", pc |-> "publishResponse",
                               payload |-> [requestId |-> responseData.requestId,
                                            latencyMs |-> responseData.latencyMs],
                               data |-> responseData,
                               todo |-> << >>, found |-> << >>,
                               made |-> 0, retained |-> FALSE,
                               baseline |-> None])
    /\ UNCHANGED <<requests, responses, incidents, published, clock, ticks,
                   nextId, closes, lastIndex, tally, consumer>>

\* A validation that also wants a retained request with the requestId.
ResponseInvalidUnmatched(body) ==
    \/ ~IsSome(body.requestId)
    \/ ~TruthyText(body.response)
    \/ \A k \in 1..Len(requests) : Some(requests[k].requestId) # body.requestId

\* !requestId || !response
ResponseInvalid(body) == ~IsSome(body.requestId) \/ ~TruthyText(body.response)

\* POST /api/llm/response
PostResponse(body) ==
    /\ started.response < MaxResponses
    /\ Len(calls) < MaxInflight
    /\ IF ResponseInvalid(body)
       THEN /\ last' = Posted(Step("postResponse", "rejected", 0, None, << >>,
                                   NoCall), body)
            /\ UNCHANGED <<requests, responses, incidents, published, calls,
                           clock, ticks, nextId, started, closes, lastIndex,
                           tally, consumer>>
       ELSE /\ handleResponse(body)
            /\ last' = Posted(Step("postResponse", "none", 0, None, << >>,
                                   NoCall), body)

\* A caller other than the route invokes the exported handleResponse.
CallHandleResponse(data) ==
    /\ started.response < MaxResponses
    /\ Len(calls) < MaxInflight
    /\ handleResponse(data)
    /\ last' = Posted(Step("handleResponse", "none", 0, None, << >>, NoCall),
                      data)

\* publishResponse resolves (ok) or rejects; on success handleResponse stores
\* the response, classifies it and either returns or awaits the publish of
\* its first finding.
PublishResponseDone(i, ok) ==
    /\ i \in 1..Len(calls)
    /\ calls[i].pc = "publishResponse"
    /\ IF ok
       THEN LET resps == Append(responses, calls[i].payload)
                message == analysisPayload(calls[i].data, resps)
                analysed == analyzeMessage(message, lastIndex)
                anomalies == analysed.anomalies
                c == [calls[i] EXCEPT !.pc = "publishAnomaly",
                                      !.todo = anomalies,
                                      !.found = anomalies,
                                      !.retained = TRUE,
                                      !.baseline = message.avgLatencyMs]
            IN /\ responses' = resps
               /\ published' = Sent("responses",
                      Event("requestId", calls[i].data.requestId))
               /\ lastIndex' = analysed.lastIndex
               /\ tally' = [tally EXCEPT
                               !.escalating = @ + NumEscalating(anomalies)]
               /\ IF anomalies = << >>
                  THEN /\ calls' = RemoveAt(calls, i)
                       /\ last' = Step("publishResponse", "ok", 0, None, << >>,
                                       CallInfo(c))
                  ELSE /\ calls' = [calls EXCEPT ![i] = c]
                       /\ last' = Step("publishResponse", "none", 0, None,
                                       << >>, CallInfo(c))
       ELSE /\ calls' = RemoveAt(calls, i)
            /\ last' = Failed(Step("publishResponse", "error", 0, None, << >>,
                                   CallInfo(calls[i])))
            /\ tally' = [tally EXCEPT !.rejected = @ + 1]
            /\ UNCHANGED <<responses, published, lastIndex>>
    /\ UNCHANGED <<requests, incidents, clock, ticks, nextId, started, closes,
                   consumer>>

(***************************************************************************)
(* Escalation.                                                             *)
(***************************************************************************)
Incident(id, type, severity, requestId, timestamp) ==
    [id |-> id, type |-> type, severity |-> severity, requestId |-> requestId,
     timestamp |-> timestamp, status |-> "open", resolution |-> None,
     closedAt |-> None]

\* A publishAnomaly that sends a finding that should alert to the anomalies
\* topic as well as to the alerts topic.
PublishAnomalyDoneBoth(i, ok) ==
    /\ i \in 1..Len(calls)
    /\ calls[i].pc = "publishAnomaly"
    /\ LET anomalyData == Head(calls[i].todo)
           shouldAlert == Escalates(anomalyData.severity)
           c == [calls[i] EXCEPT !.todo = Tail(calls[i].todo),
                                 !.made = IF shouldAlert THEN @ + 1 ELSE @]
       IN IF ok
          THEN /\ IF shouldAlert
                  THEN /\ published' =
                              [published EXCEPT
                                 !.alerts = Append(@,
                                     Event(anomalyData.type,
                                           calls[i].data.requestId)),
                                 !.anomalies = Append(@,
                                     Event(anomalyData.type,
                                           calls[i].data.requestId))]
                       /\ incidents' = Append(incidents,
                              Incident(nextId.incident, anomalyData.type,
                                       anomalyData.severity,
                                       calls[i].data.requestId, clock))
                       /\ nextId' = [nextId EXCEPT !.incident = @ + 1]
                  ELSE /\ published' = Sent("anomalies",
                              Event(anomalyData.type,
                                    calls[i].data.requestId))
                       /\ UNCHANGED <<incidents, nextId>>
               /\ UNCHANGED tally
               /\ IF c.todo = << >>
                  THEN /\ calls' = RemoveAt(calls, i)
                       /\ last' = Step("publishAnomaly", "ok", Len(c.found),
                                       Some(anomalyData), << >>, CallInfo(c))
                  ELSE /\ calls' = [calls EXCEPT ![i] = c]
                       /\ last' = Step("publishAnomaly", "none", 0,
                                       Some(anomalyData), << >>, CallInfo(c))
          ELSE /\ calls' = RemoveAt(calls, i)
               /\ last' = Failed(Step("publishAnomaly", "error", 0,
                                      Some(anomalyData), << >>,
                                      CallInfo(calls[i])))
               /\ tally' = [tally EXCEPT !.rejected = @ + 1]
               /\ UNCHANGED <<published, incidents, nextId>>
    /\ UNCHANGED <<requests, responses, clock, ticks, started, closes,
                   lastIndex, consumer>>

\* A publishAnomaly that pushes the incident before it awaits publishAlert,
\* so that the incident stays when the publish is rejected.
PublishAnomalyDoneEager(i, ok) ==
    /\ i \in 1..Len(calls)
    /\ calls[i].pc = "publishAnomaly"
    /\ LET anomalyData == Head(calls[i].todo)
           shouldAlert == Escalates(anomalyData.severity)
           c == [calls[i] EXCEPT !.todo = Tail(calls[i].todo),
                                 !.made = IF shouldAlert THEN @ + 1 ELSE @]
       IN IF ok
          THEN /\ IF shouldAlert
                  THEN /\ published' = Sent("alerts",
                              Event(anomalyData.type,
                                    calls[i].data.requestId))
                       /\ incidents' = Append(incidents,
                              Incident(nextId.incident, anomalyData.type,
                                       anomalyData.severity,
                                       calls[i].data.requestId, clock))
                       /\ nextId' = [nextId EXCEPT !.incident = @ + 1]
                  ELSE /\ published' = Sent("anomalies",
                              Event(anomalyData.type,
                                    calls[i].data.requestId))
                       /\ UNCHANGED <<incidents, nextId>>
               /\ UNCHANGED tally
               /\ IF c.todo = << >>
                  THEN /\ calls' = RemoveAt(calls, i)
                       /\ last' = Step("publishAnomaly", "ok", Len(c.found),
                                       Some(anomalyData), << >>, CallInfo(c))
                  ELSE /\ calls' = [calls EXCEPT ![i] = c]
                       /\ last' = Step("publishAnomaly", "none", 0,
                                       Some(anomalyData), << >>, CallInfo(c))
          ELSE /\ calls' = RemoveAt(calls, i)
               /\ last' = Failed(Step("publishAnomaly", "error", 0,
                                      Some(anomalyData), << >>,
                                      CallInfo(calls[i])))
               /\ tally' = [tally EXCEPT !.rejected = @ + 1]
               /\ IF shouldAlert
                  THEN /\ incidents' = Append(incidents,
                              Incident(nextId.incident, anomalyData.type,
                                       anomalyData.severity,
                                       calls[i].data.requestId, clock))
                       /\ nextId' = [nextId EXCEPT !.incident = @ + 1]
                  ELSE UNCHANGED <<incidents, nextId>>
               /\ UNCHANGED published
    /\ UNCHANGED <<requests, responses, clock, ticks, started, closes,
                   lastIndex, consumer>>

\* The publish awaited by publishAnomaly for the finding at the head of the
\* call's list resolves (ok) or rejects: publishAlert followed by the push of
\* the incident for a finding that should alert, the producer's
\* publishAnomaly for any other.  A rejection is rethrown through
\* handleResponse; after a success the loop goes on to the next finding or
\* handleResponse returns.
PublishAnomalyDone(i, ok) ==
    /\ i \in 1..Len(calls)
    /\ calls[i].pc = "publishAnomaly"
    /\ LET anomalyData == Head(calls[i].todo)
           shouldAlert == Escalates(anomalyData.severity)
           c == [calls[i] EXCEPT !.todo = Tail(calls[i].todo),
                                 !.made = IF shouldAlert THEN @ + 1 ELSE @]
       IN IF ok
          THEN /\ IF shouldAlert
                  THEN /\ published' = Sent("alerts",
                              Event(anomalyData.type,
                                    calls[i].data.requestId))
                       /\ incidents' = Append(incidents,
                              Incident(nextId.incident, anomalyData.type,
                                       anomalyData.severity,
                                       calls[i].data.requestId, clock))
                       /\ nextId' = [nextId EXCEPT !.incident = @ + 1]
                  ELSE /\ published' = Sent("anomalies",
                              Event(anomalyData.type,
                                    calls[i].data.requestId))
                       /\ UNCHANGED <<incidents, nextId>>
               /\ UNCHANGED tally
               /\ IF c.todo = << >>
                  THEN /\ calls' = RemoveAt(calls, i)
                       /\ last' = Step("publishAnomaly", "ok", Len(c.found),
                                       Some(anomalyData), << >>, CallInfo(c))
                  ELSE /\ calls' = [calls EXCEPT ![i] = c]
                       /\ last' = Step("publishAnomaly", "none", 0,
                                       Some(anomalyData), << >>, CallInfo(c))
          ELSE /\ calls' = RemoveAt(calls, i)
               /\ last' = Failed(Step("publishAnomaly", "error", 0,
                                      Some(anomalyData), << >>,
                                      CallInfo(calls[i])))
               /\ tally' = [tally EXCEPT !.rejected = @ + 1]
               /\ UNCHANGED <<published, incidents, nextId>>
    /\ UNCHANGED <<requests, responses, clock, ticks, started, closes,
                   lastIndex, consumer>>

(***************************************************************************)
(* Incident management and reads.                                          *)
(***************************************************************************)
\* A lookup that falls back to the first incident when the id is unknown.
FindIndexOrFirst(incs, incidentId) ==
    IF \E k \in 1..Len(incs) : incs[k].id = incidentId
    THEN CHOOSE k \in 1..Len(incs) :
            /\ incs[k].id = incidentId
            /\ \A j \in 1..(k - 1) : incs[j].id # incidentId
    ELSE IF Len(incs) > 0 THEN 1 ELSE 0

\* Index of the first incident with the given id, 0 if there is none.
FindIndex(incs, incidentId) ==
    IF \E k \in 1..Len(incs) : incs[k].id = incidentId
    THEN CHOOSE k \in 1..Len(incs) :
            /\ incs[k].id = incidentId
            /\ \A j \in 1..(k - 1) : incs[j].id # incidentId
    ELSE 0

\* A close that leaves closedAt unset.
closeIncidentNoClosedAt(incs, incidentId, resolution, now) ==
    LET k == FindIndex(incs, incidentId)
    IN IF k # 0
       THEN [incs EXCEPT ![k].status = "closed",
                         ![k].resolution = resolution]
       ELSE incs

\* A close that reopens an incident already closed.
closeIncidentToggle(incs, incidentId, resolution, now) ==
    LET k == FindIndex(incs, incidentId)
    IN IF k # 0
       THEN IF incs[k].status = "closed"
            THEN [incs EXCEPT ![k].status = "open",
                              ![k].resolution = None,
                              ![k].closedAt = None]
            ELSE [incs EXCEPT ![k].status = "closed",
                              ![k].resolution = resolution,
                              ![k].closedAt = Some(now)]
       ELSE incs

closeIncident(incs, incidentId, resolution, now) ==
    LET k == FindIndex(incs, incidentId)
    IN IF k # 0
       THEN [incs EXCEPT ![k].status = "closed",
                         ![k].resolution = resolution,
                         ![k].closedAt = Some(now)]
       ELSE incs

CloseIncident(incidentId, resolution) ==
    /\ closes < MaxCloses
    /\ closes' = closes + 1
    /\ incidents' = closeIncident(incidents, incidentId, resolution, clock)
    /\ LET k == FindIndex(incidents, incidentId)
       IN last' = IF k # 0
                  THEN Step("closeIncident", "ok", incidentId, None,
                            <<incidents'[k]>>, NoCall)
                  ELSE Step("closeIncident", "notfound", incidentId, None,
                            << >>, NoCall)
    /\ UNCHANGED <<requests, responses, published, calls, clock, ticks, nextId,
                   started, lastIndex, tally, consumer>>

\* getIncidentDetails: the incident found, None for undefined.
getIncidentDetails(incs, incidentId) ==
    LET k == FindIndex(incs, incidentId)
    IN IF k # 0 THEN Some(incs[k]) ELSE None

\* Array.prototype.sort with (a, b) => new Date(b.timestamp) - new
\* Date(a.timestamp): a stable sort, latest timestamp first.
RECURSIVE InsertDesc(_, _)
InsertDesc(x, s) ==
    IF s = << >> THEN <<x>>
    ELSE IF Head(s).timestamp >= x.timestamp
         THEN <<Head(s)>> \o InsertDesc(x, Tail(s))
         ELSE <<x>> \o s

RECURSIVE SortDesc(_)
SortDesc(s) ==
    IF s = << >> THEN << >>
    ELSE InsertDesc(s[Len(s)], SortDesc(SubSeq(s, 1, Len(s) - 1)))

Slice(s, count) == SubSeq(s, 1, IF count < Len(s) THEN count ELSE Len(s))

\* getRecentIncidents sorts metrics.incidents in place and returns a slice.
GetRecentIncidents(count) ==
    /\ incidents' = SortDesc(incidents)
    /\ last' = Step("getRecentIncidents", "ok", count, None,
                    Slice(incidents', count), NoCall)
    /\ UNCHANGED <<requests, responses, published, calls, clock, ticks, nextId,
                   started, closes, lastIndex, tally, consumer>>

(***************************************************************************)
(* Cost analytics.                                                         *)
(***************************************************************************)
MaxReads == 2

\* Math.round of the rational p/q, q > 0: the floor of p/q + 1/2.
MathRound(p, q) == (2 * p + q) \div (2 * q)

\* parseFloat((p / q).toFixed(digits)): the multiple of 10^-digits nearest
\* to p/q, the larger of the two on a tie.
ToFixed(p, q, digits) == Rat(MathRound(p * 10 ^ digits, q), 10 ^ digits)

\* sum + (req.cost || 0) over the requests at the given indices.
RECURSIVE SumCost(_, _)
SumCost(reqs, idx) ==
    IF idx = {} THEN 0
    ELSE LET k == CHOOSE k \in idx : TRUE
         IN reqs[k].cost + SumCost(reqs, idx \ {k})

\* getCostAnalytics over a requests array.
getCostAnalytics(reqs) ==
    LET all == 1..Len(reqs)
        totalCost == SumCost(reqs, all)
    IN [totalCost |-> ToFixed(totalCost, 1, 2),
        avgCostPerRequest |-> IF Len(reqs) > 0
                              THEN ToFixed(totalCost, Len(reqs), 4)
                              ELSE ToFixed(0, 1, 4),
        costByUser |-> [u \in {reqs[k].userId : k \in all} |->
                           SumCost(reqs, {k \in all : reqs[k].userId = u})],
        costByModel |-> [m \in {reqs[k].model : k \in all} |->
                            SumCost(reqs, {k \in all : reqs[k].model = m})]]

\* How many getCostAnalytics calls in a row the step just taken ends.
Reads == IF last.op = "getCostAnalytics" THEN last.val ELSE 0

\* A getCostAnalytics that takes each request off the store as it adds it up.
GetCostAnalyticsDraining ==
    /\ Reads < MaxReads
    /\ requests' = << >>
    /\ last' = Returned(Step("getCostAnalytics", "ok", Reads + 1, None, << >>,
                             NoCall), getCostAnalytics(requests))
    /\ UNCHANGED <<responses, incidents, published, calls, clock, ticks,
                   nextId, started, closes, lastIndex, tally, consumer>>

\* GET /api/metrics/cost
GetCostAnalytics ==
    /\ Reads < MaxReads
    /\ last' = Returned(Step("getCostAnalytics", "ok", Reads + 1, None, << >>,
                             NoCall), getCostAnalytics(requests))
    /\ UNCHANGED <<requests, responses, incidents, published, calls, clock,
                   ticks, nextId, started, closes, lastIndex, tally, consumer>>

(***************************************************************************)
(* The anomaly detector called on its own.                                 *)
(***************************************************************************)
\* latencyMs with avgLatencyMs: none, around the thresholds of a baseline of
\* 1000 ms, and beyond the timeout without a baseline.
LatencyCases ==
    { <<None, None>>, <<Some(1200), Some(Rat(1000, 1))>>,
      <<Some(1600), Some(Rat(1000, 1))>>, <<Some(2501), Some(Rat(1000, 1))>>,
      <<Some(3500), Some(Rat(1000, 1))>>, <<Some(3501), Some(Rat(1000, 1))>>,
      <<Some(LatencyTimeoutMs + 1000), Some(Rat(0, 1))>> }

\* tokenCount with avgTokenCount, cost with avgCost, and errorCount: none of
\* them, or each beyond its rule's threshold.
OtherCases ==
    { [tokenCount |-> None, avgTokenCount |-> None, cost |-> None,
       avgCost |-> None, errorCount |-> None],
      [tokenCount |-> Some(400), avgTokenCount |-> Some(100),
       cost |-> Some(CostThreshold + 10), avgCost |-> Some(10),
       errorCount |-> Some(ErrorThreshold + 1)] }

\* Messages that differ in their texts and confidence score only.
TextMessages ==
    { Message(prompt, response, None, None, None, None, None, None,
              confidenceScore, None) :
        prompt \in {None, Some(TextInjection), Some(TextEmailInjection)},
        response \in {None, Some(TextBenign), Some(TextEmail),
                      Some(TextEmailToxic), Some(TextContradiction)},
        confidenceScore \in {None, Some(10), Some(90)} }

\* Messages that differ in their numbers only, with and without texts that
\* trigger the text rules.
NumberMessages ==
    { Message(t[1], t[2], o.tokenCount, o.avgTokenCount, o.cost, o.avgCost,
              l[1], l[2], t[3], o.errorCount) :
        t \in { <<None, Some(TextBenign), Some(90)>>,
                <<Some(TextEmailInjection), Some(TextEmailToxic), Some(10)>> },
        l \in LatencyCases, o \in OtherCases }

\* tokenCount with avgTokenCount: around the thresholds of a baseline of 100
\* tokens, and without a baseline.
TokenCases ==
    { <<Some(400), Some(100)>>, <<Some(301), Some(100)>>,
      <<Some(300), Some(100)>>, <<Some(251), Some(100)>>,
      <<Some(250), Some(100)>>, <<Some(400), Some(0)>>, <<Some(400), None>> }

\* Messages that differ in their token counts only.
TokenMessages ==
    { Message(None, Some(TextBenign), t[1], t[2], None, None, None, None,
              Some(90), None) : t \in TokenCases }

\* A cost beyond the ceiling and a latency beyond the timeout, each against
\* a baseline, against a baseline of zero and without one.
ThresholdMessages ==
    { Message(None, Some(TextBenign), None, None, Some(CostThreshold + 10),
              avgCost, None, None, Some(90), None) :
        avgCost \in {Some(10), Some(0), None} }
    \cup
    { Message(None, Some(TextBenign), None, None, None, None,
              Some(LatencyTimeoutMs + 1000), avgLatencyMs, Some(90), None) :
        avgLatencyMs \in {Some(Rat(1000, 1)), Some(Rat(0, 1)), None} }

\* A message that triggers every rule, and the same message without its
\* confidenceScore, without its cost, without its latencyMs and without its
\* tokenCount.
FullMessage ==
    Message(Some(TextEmailInjection), Some(TextEmailToxic), Some(400),
            Some(100), Some(CostThreshold + 10), Some(10),
            Some(LatencyTimeoutMs + 1000), Some(Rat(1000, 1)), Some(10),
            Some(ErrorThreshold + 1))

AbsentMessages ==
    { FullMessage,
      [FullMessage EXCEPT !.confidenceScore = None],
      [FullMessage EXCEPT !.cost = None],
      [FullMessage EXCEPT !.latencyMs = None],
      [FullMessage EXCEPT !.tokenCount = None] }

Messages ==
    TextMessages \cup NumberMessages \cup TokenMessages \cup ThresholdMessages
        \cup AbsentMessages

\* A caller invokes the exported analyzeMessage.
AnalyzeMessage(message) ==
    /\ LET analysed == analyzeMessage(message, lastIndex)
       IN /\ lastIndex' = analysed.lastIndex
          /\ last' = Posted(Step("analyzeMessage", "ok",
                                 Len(analysed.anomalies), None,
                                 analysed.anomalies, NoCall), message)
    /\ UNCHANGED <<requests, responses, incidents, published, calls, clock,
                   ticks, nextId, started, closes, tally, consumer>>

\* Response data that triggers every rule at once, and data whose PII is
\* all that triggers one.
AnalysisData ==
    { [ResponseData(Some(7), Some(TextEmailToxic),
                    Some(LatencyTimeoutMs + 1000), Some(10), Some(400),
                    Some(100), None)
          EXCEPT !.prompt = Some(TextEmailInjection),
                 !.cost = Some(CostThreshold + 10), !.avgCost = Some(10),
                 !.errorCount = Some(ErrorThreshold + 1)],
      ResponseData(Some(8), Some(TextEmail), Some(100), Some(90), None, None,
                   None) }

NextAnalysis ==
    \/ \E message \in Messages : AnalyzeMessage(message)
    \/ \E data \in AnalysisData : CallHandleResponse(data)
    \/ \E i \in 1..MaxInflight, ok \in BOOLEAN : PublishResponseDone(i, ok)
    \/ \E i \in 1..MaxInflight, ok \in BOOLEAN : PublishAnomalyDone(i, ok)

SpecAnalysis == Init /\ [][NextAnalysis]_vars

(***************************************************************************)
(* A client that records several responses, so that the baseline is taken  *)
(* over more than the response being recorded.                             *)
(***************************************************************************)
MaxRecorded == 3

\* Responses without a latency, with latency 0, with a latency beyond the
\* timeout, and with an avgLatencyMs of the caller's own.
RecordedData ==
    { RouteData(Some(1), Some(TextBenign), Some(500), Some(90)),
      RouteData(Some(7), Some(TextBenign), Some(0), Some(90)),
      RouteData(Some(7), Some(TextBenign), Some(LatencyTimeoutMs + 1000),
                Some(90)),
      ResponseData(Some(1), Some(TextBenign), None, Some(90), None, None,
                   Some(Rat(10, 1))),
      ResponseData(Some(1), Some(TextBenign), Some(6000), Some(90), None, None,
                   Some(Rat(10, 1))) }

\* A caller invokes the exported handleResponse, up to MaxRecorded times.
RecordResponse(data) ==
    /\ started.response < MaxRecorded
    /\ Len(calls) < MaxInflight
    /\ handleResponse(data)
    /\ last' = Posted(Step("handleResponse", "none", 0, None, << >>, NoCall),
                      data)

\* The request of the client: {userId: "u1", model: "gpt-x", prompt: "hello",
\* cost: 1}.
RecordedRequests ==
    { RequestBody(Some("u1"), Some("gpt-x"), Some(TextBenign), Some(1)) }

NextBaseline ==
    \/ \E body \in RecordedRequests : PostRequest(body)
    \/ \E i \in 1..MaxInflight, ok \in BOOLEAN : PublishRequestDone(i, ok)
    \/ \E data \in RecordedData : RecordResponse(data)
    \/ \E i \in 1..MaxInflight, ok \in BOOLEAN : PublishResponseDone(i, ok)
    \/ \E i \in 1..MaxInflight, ok \in BOOLEAN : PublishAnomalyDone(i, ok)
    \/ GetCostAnalytics

SpecBaseline == Init /\ [][NextBaseline]_vars

(***************************************************************************)
(* The Kafka consumer that forwards records to the observability sink.     *)
(***************************************************************************)
MaxRecords == 3

\* A record: its topic and its value, which is absent (null), bytes that
\* are not JSON, the JSON text null, or the JSON text of an object.
Record(topic, kind, data) == [topic |-> topic, kind |-> kind, data |-> data]

\* The properties of a record's object the handlers read; promptIsText says
\* whether prompt, when present, is a string.
RecordData(tokenCount, cost, priority, promptIsText, completionTokens, confidenceScore, severity) ==
    [tokenCount |-> tokenCount, cost |-> cost, priority |-> priority,
     promptIsText |-> promptIsText, completionTokens |-> completionTokens,
     confidenceScore |-> confidenceScore, severity |-> severity]

NoData == RecordData(None, None, None, TRUE, None, None, None)

Records ==
    { Record("llm-requests", "bytes", NoData),
      Record("llm-requests", "null", NoData),
      Record("llm-responses", "jsonNull", NoData),
      Record("llm-requests", "json",
             RecordData(Some(5), Some(1), Some("high"), TRUE, None, None, None)),
      Record("llm-requests", "json",
             RecordData(None, Some(0), Some("high"), FALSE, None, None, None)),
      Record("llm-responses", "json",
             RecordData(None, None, None, TRUE, Some(3), Some(10), None)),
      Record("llm-responses", "json", NoData),
      Record("llm-anomalies", "json",
             RecordData(None, None, None, TRUE, None, None, Some("critical"))),
      Record("llm-alerts", "json", NoData),
      Record("llm-other", "json", NoData) }

\* JSON.parse(message.value.toString()) followed by the first read of a
\* property of data: whether it throws.
ParseThrows(record) == record.kind \in {"bytes", "null", "jsonNull"}

\* What each handler does after a successful parse, in order: "metric" and
\* "event" are awaited calls of sendMetricToDatadog and sendEventToDatadog,
\* "throw" is an exception raised in the handler's own code.
processRequest(data) ==
    <<"metric">>
    \o (IF TruthyNum(data.tokenCount) THEN <<"metric">> ELSE << >>)
    \o (IF TruthyNum(data.cost) THEN <<"metric">> ELSE << >>)
    \o (IF data.priority = Some("high")
        THEN IF data.promptIsText THEN <<"event">> ELSE <<"throw">>
        ELSE << >>)

processResponse(data) ==
    <<"metric">>
    \o (IF TruthyNum(data.completionTokens) THEN <<"metric">> ELSE << >>)
    \o (IF IsSome(data.confidenceScore) /\ Val(data.confidenceScore) < 50
        THEN <<"event">> ELSE << >>)

processAnomaly(data) == <<"metric", "event">>

processAlert(data) == <<"event", "metric">>

\* The switch of eachMessage: the steps of the handler for the record.
Steps(record) ==
    IF record.topic \notin {"llm-requests", "llm-responses", "llm-anomalies",
                            "llm-alerts"}
    THEN << >>
    ELSE IF ParseThrows(record) THEN <<"throw">>
    ELSE IF record.topic = "llm-requests" THEN processRequest(record.data)
    ELSE IF record.topic = "llm-responses" THEN processResponse(record.data)
    ELSE IF record.topic = "llm-anomalies" THEN processAnomaly(record.data)
    ELSE processAlert(record.data)

\* A handler without its try and catch: an exception in it rejects the
\* promise eachMessage returns.
HandlerEndsUncaught(threw) == IF threw THEN "rejected" ELSE "fulfilled"

\* Each handler catches what its body throws and logs it, so the promise
\* eachMessage returns is fulfilled either way.
HandlerEnds(threw) == "fulfilled"

\* The handler in progress runs up to its next await or to its end.  An
\* exception is logged by the handler's catch; when the promise eachMessage
\* returns is rejected, consumer.run stops handing out records.
Advance(c) ==
    IF c.pending = << >>
    THEN [c EXCEPT !.busy = FALSE,
                   !.outcomes = Append(@, HandlerEnds(FALSE))]
    ELSE IF Head(c.pending) = "throw"
    THEN [c EXCEPT !.busy = FALSE, !.pending = << >>,
                   !.logged = @ + 1,
                   !.outcomes = Append(@, HandlerEnds(TRUE)),
                   !.running = HandlerEnds(TRUE) = "fulfilled"]
    ELSE c

\* consumer.run hands the next record to eachMessage.
EachMessage(record) ==
    /\ consumer.running
    /\ ~consumer.busy
    /\ consumer.consumed < MaxRecords
    /\ consumer' = Advance([consumer EXCEPT !.busy = TRUE,
                                            !.consumed = @ + 1,
                                            !.pending = Steps(record)])
    /\ UNCHANGED <<requests, responses, incidents, published, calls, clock,
                   ticks, nextId, started, closes, last, lastIndex, tally>>

\* The post to the sink awaited by sendMetricToDatadog or sendEventToDatadog
\* resolves (ok) or rejects; a rejection is caught and logged there, and the
\* handler goes on.
SinkDone(ok) ==
    /\ consumer.busy
    /\ consumer.pending # << >>
    /\ LET what == Head(consumer.pending)
           c == [consumer EXCEPT
                   !.pending = Tail(@),
                   !.sink.metrics = IF ok /\ what = "metric" THEN @ + 1 ELSE @,
                   !.sink.events = IF ok /\ what = "event" THEN @ + 1 ELSE @,
                   !.logged = IF ok THEN @ ELSE @ + 1]
       IN consumer' = Advance(c)
    /\ UNCHANGED <<requests, responses, incidents, published, calls, clock,
                   ticks, nextId, started, closes, last, lastIndex, tally>>

NextConsumer ==
    \/ \E record \in Records : EachMessage(record)
    \/ \E ok \in BOOLEAN : SinkDone(ok)

SpecConsumer == Init /\ [][NextConsumer]_vars

Counts == {1, DefaultCount}
Resolutions == {Some("fixed")}

Next ==
    \/ \E d \in ClockSteps : Tick(d)
    \/ \E body \in RequestBodies : PostRequest(body)
    \/ \E i \in 1..MaxInflight, ok \in BOOLEAN : PublishRequestDone(i, ok)
    \/ \E body \in ResponseBodies : PostResponse(body)
    \/ \E data \in DirectResponseData : CallHandleResponse(data)
    \/ \E i \in 1..MaxInflight, ok \in BOOLEAN : PublishResponseDone(i, ok)
    \/ \E i \in 1..MaxInflight, ok \in BOOLEAN : PublishAnomalyDone(i, ok)
    \/ \E id \in 1..nextId.incident, r \in Resolutions : CloseIncident(id, r)
    \/ \E count \in Counts : GetRecentIncidents(count)
    \/ GetCostAnalytics

Spec == Init /\ [][Next]_vars

(***************************************************************************)
(* Metrics.                                                                *)
(***************************************************************************)
\* The score without Math.max(0, ...).
safetyScoreNoMax(totalRequests, totalIncidents) ==
    IF totalRequests > 0
    THEN MathRound(100 * totalRequests - 100 * totalIncidents, totalRequests)
    ELSE 100

\* Math.round(totalRequests > 0
\*            ? Math.max(0, 100 - (totalIncidents / totalRequests) * 100) : 100)
safetyScore(totalRequests, totalIncidents) ==
    IF totalRequests > 0
    THEN IF 100 * totalRequests - 100 * totalIncidents > 0
         THEN MathRound(100 * totalRequests - 100 * totalIncidents,
                        totalRequests)
         ELSE MathRound(0, totalRequests)
    ELSE 100

RECURSIVE SumRepairMs(_)
SumRepairMs(s) ==
    IF s = << >> THEN 0
    ELSE (Val(Head(s).closedAt) - Head(s).timestamp) + SumRepairMs(Tail(s))

\* A mean time to repair taken over every incident, an open one counting 0.
calculateMTTROverAll(incs) ==
    LET closedIncidents ==
            SelectSeq(incs, LAMBDA i : i.status = "closed" /\ IsSome(i.closedAt))
    IN IF Len(closedIncidents) = 0 THEN 0
       ELSE MathRound(SumRepairMs(closedIncidents), MsPerMinute * Len(incs))

calculateMTTR(incs) ==
    LET closedIncidents ==
            SelectSeq(incs, LAMBDA i : i.status = "closed" /\ IsSome(i.closedAt))
    IN IF Len(closedIncidents) = 0 THEN 0
       ELSE MathRound(SumRepairMs(closedIncidents),
                      MsPerMinute * Len(closedIncidents))

getSafetyMetrics ==
    [totalRequests |-> Len(requests),
     totalIncidents |-> Len(incidents),
     openIncidents |-> Len(SelectSeq(incidents, LAMBDA i : i.status = "open")),
     safetyScore |-> safetyScore(Len(requests), Len(incidents)),
     criticalIncidents |->
         Len(SelectSeq(incidents, LAMBDA i : i.severity = "critical")),
     highIncidents |->
         Len(SelectSeq(incidents, LAMBDA i : i.severity = "high")),
     mttr |-> calculateMTTR(incidents)]

(***************************************************************************)
(* Properties.                                                             *)
(***************************************************************************)
Ids(incs) == {incs[k].id : k \in 1..Len(incs)}

store == <<requests, responses, incidents, published, calls>>

\* C1: every retained incident has severity high or critical, and a finding
\* handled by publishAnomaly adds an incident if and only if its severity is
\* high or critical; a low or medium finding adds none and is sent to the
\* anomalies topic only.
C1_EscalatesIffHighOrCritical ==
    [][/\ \A k \in 1..Len(incidents') : Escalates(incidents'[k].severity)
       /\ last'.op = "publishAnomaly" =>
            LET f == Val(last'.finding)
            IN /\ (Len(incidents') = Len(incidents) + 1)
                      <=> f.severity \in {"high", "critical"}
               /\ f.severity \in {"low", "medium"} =>
                      /\ incidents' = incidents
                      /\ published'.alerts = published.alerts
                      /\ Len(published'.anomalies) = Len(published.anomalies) + 1
      ]_vars

\* C2: every retained incident has closedAt set if and only if its status is
\* closed, and an open incident has no resolution.
C2_ClosedAtIffClosed ==
    \A k \in 1..Len(incidents) :
        /\ IsSome(incidents[k].closedAt) <=> incidents[k].status = "closed"
        /\ incidents[k].status = "open" => incidents[k].resolution = None

C2_Witness ==
    /\ \E k \in 1..Len(incidents) : incidents[k].status = "closed"
    /\ \E k \in 1..Len(incidents) : incidents[k].status = "open"
    /\ last.op = "closeIncident"

\* C3: an incident is created open, its status changes only from open to
\* closed and only in a closeIncident step, and an incident once retained is
\* retained, and found by getIncidentDetails, ever after.
C3_OpenToClosedOnly ==
    [][/\ \A k \in 1..Len(incidents) :
            /\ IsSome(getIncidentDetails(incidents', incidents[k].id))
            /\ \E j \in 1..Len(incidents') :
                 /\ incidents'[j].id = incidents[k].id
                 /\ incidents[k].status = "closed"
                        => incidents'[j].status = "closed"
                 /\ incidents'[j].status # incidents[k].status
                        => last'.op = "closeIncident"
       /\ \A j \in 1..Len(incidents') :
            /\ incidents'[j].status \in {"open", "closed"}
            /\ incidents'[j].id \notin Ids(incidents)
                   => incidents'[j].status = "open"
      ]_vars

C3_Witness ==
    /\ \E k \in 1..Len(incidents) : incidents[k].status = "closed"
    /\ last.op = "getRecentIncidents"
    /\ Len(incidents) > 1

\* C4: a publish rejected during handleRequest or handleResponse does not
\* fail the call: the request or response is retained and the caller gets
\* the result, not an error.
C4_PublishFailureNonFatal ==
    last.failed => /\ last.ret # "error"
                   /\ last.call.retained

\* C5: a handleResponse call that ends on a rejected publish never leaves the
\* response retained with only some of the incidents of its high and critical
\* findings: the incidents it made are one per such finding.
C5_NoPartialUpdate ==
    (last.op \in {"publishResponse", "publishAnomaly"} /\ last.failed
        /\ last.call.retained)
        => last.call.made = NumEscalating(last.call.found)

C7_UnknownIdIsNoOp ==
    [][/\ (last'.op = "closeIncident" /\ last'.val \notin Ids(incidents))
              => /\ last'.ret = "notfound"
                 /\ last'.list = << >>
                 /\ UNCHANGED store
       /\ \A id \in 1..(nextId.incident + 1) :
              id \notin Ids(incidents)
                  => getIncidentDetails(incidents, id) = None
      ]_vars

C7_Witness ==
    /\ last.op = "closeIncident"
    /\ last.ret = "notfound"
    /\ incidents # << >>

\* C8: the safety score is the nearest integer to
\* max(0, 100 - 100 * totalIncidents / totalRequests) when there are requests
\* and 100 when there are none, so it is always an integer in 0..100.
C8_SafetyScore ==
    LET R == Len(requests)
        I == Len(incidents)
        score == getSafetyMetrics.safetyScore
    IN /\ score \in 0..100
       /\ R = 0 => score = 100
       /\ (R > 0 /\ I >= R) => score = 0
       /\ (R > 0 /\ I < R) =>
              /\ 2 * (score * R - (100 * R - 100 * I)) <= R
              /\ 2 * ((100 * R - 100 * I) - score * R) <= R

C8_Witness ==
    /\ Len(requests) > 0
    /\ Len(incidents) > Len(requests)

\* Sum of closedAt - timestamp over the incidents at the given indices.
RECURSIVE RepairMsOver(_, _)
RepairMsOver(incs, idx) ==
    IF idx = {} THEN 0
    ELSE LET k == CHOOSE k \in idx : TRUE
         IN (Val(incs[k].closedAt) - incs[k].timestamp)
            + RepairMsOver(incs, idx \ {k})

\* C9: the MTTR is the nearest integer to the mean, over the closed incidents
\* only, of closedAt - timestamp in minutes, 0 when none is closed, and 10
\* when every closed incident was closed exactly 10 minutes after creation.
C9_MTTR ==
    LET closedIdx == {k \in 1..Len(incidents) : incidents[k].status = "closed"}
        n == Cardinality(closedIdx)
        total == RepairMsOver(incidents, closedIdx)
        mttr == getSafetyMetrics.mttr
    IN /\ n = 0 => mttr = 0
       /\ n > 0 =>
              /\ 2 * (mttr * MsPerMinute * n - total) <= MsPerMinute * n
              /\ 2 * (total - mttr * MsPerMinute * n) <= MsPerMinute * n
       /\ (/\ n > 0
           /\ \A k \in closedIdx :
                Val(incidents[k].closedAt) - incidents[k].timestamp
                    = 10 * MsPerMinute)
              => mttr = 10

C9_Witness ==
    /\ \E k \in 1..Len(incidents) :
          /\ incidents[k].status = "closed"
          /\ Val(incidents[k].closedAt) - incidents[k].timestamp = 10 * MsPerMinute
    /\ \E k \in 1..Len(incidents) : incidents[k].status = "open"

\* C10: getRecentIncidents(n) returns min(n, number of incidents) incidents,
\* one created later before one created earlier, also when their timestamps
\* are equal, and omits no incident created later than one it returns.
C10_MostRecentlyCreatedFirst ==
    last.op = "getRecentIncidents" =>
        /\ Len(last.list) = IF last.val < Len(incidents)
                            THEN last.val ELSE Len(incidents)
        /\ \A i, j \in 1..Len(last.list) :
               i < j => last.list[i].id > last.list[j].id
        /\ \A k \in 1..Len(incidents), i \in 1..Len(last.list) :
               incidents[k].id \notin Ids(last.list)
                   => incidents[k].id < last.list[i].id

\* C11: a handleRequest that succeeds appends exactly one request, whose
\* requestId no retained request had, and leaves the others as they were;
\* requests with the same payload are all retained, and the retained
\* requestIds are pairwise distinct.
C11_FreshRequestId ==
    [][/\ (last'.op = "publishRequest" /\ last'.ret = "ok") =>
            /\ Len(requests') = Len(requests) + 1
            /\ SubSeq(requests', 1, Len(requests)) = requests
            /\ requests'[Len(requests')].requestId = last'.val
            /\ \A k \in 1..Len(requests) : requests[k].requestId # last'.val
       /\ \A j, k \in 1..Len(requests') :
            j # k => requests'[j].requestId # requests'[k].requestId
      ]_vars

C11_Witness ==
    /\ last.op = "publishRequest"
    /\ last.ret = "ok"
    /\ \E j, k \in 1..Len(requests) :
          /\ j # k
          /\ [requests[j] EXCEPT !.requestId = 0]
                = [requests[k] EXCEPT !.requestId = 0]

\* The positions at which a finding of the given type occurs.
Positions(findings, type) == {k \in 1..Len(findings) : findings[k].type = type}

\* C12: a handleResponse call for a response with text and a confidence
\* score below 0.3 produces exactly one HALLUCINATION finding, of severity
\* high, and publishAnomaly handles it, which appends one open HALLUCINATION
\* incident for the response and one alert for it.
C12_LowConfidenceEscalates ==
    [][/\ (/\ last'.op \in {"publishResponse", "publishAnomaly"}
           /\ last'.ret \in {"ok", "error"}
           /\ TruthyText(Val(last'.call.data).response)
           /\ IsSome(Val(last'.call.data).confidenceScore)
           /\ Val(Val(last'.call.data).confidenceScore) < LowConfidence) =>
              LET found == last'.call.found
                  at == Positions(found, "HALLUCINATION")
              IN /\ Cardinality(at) = 1
                 /\ \A k \in at : /\ found[k].severity = "high"
                                   /\ k <= last'.call.done
       /\ (/\ last'.op = "publishAnomaly"
           /\ Val(last'.finding).type = "HALLUCINATION") =>
              /\ Len(incidents') = Len(incidents) + 1
              /\ SubSeq(incidents', 1, Len(incidents)) = incidents
              /\ LET incident == incidents'[Len(incidents')]
                 IN /\ incident.type = "HALLUCINATION"
                    /\ incident.status = "open"
                    /\ incident.requestId = Val(last'.call.data).requestId
              /\ published'.alerts =
                     Append(published.alerts,
                            Event("HALLUCINATION",
                                  Val(last'.call.data).requestId))
      ]_vars

\* The severities of the findings of the given type.
Severities(findings, type) ==
    {findings[k].severity : k \in Positions(findings, type)}

\* analyzeMessage has just returned for the given latencyMs against a
\* baseline average latency of 1000 ms.
Classified(step, latencyMs) ==
    /\ step.op = "analyzeMessage"
    /\ Val(step.input).latencyMs = Some(latencyMs)
    /\ Val(step.input).avgLatencyMs = Some(Rat(1000, 1))

LatencySeverities(step) == Severities(step.list, "PERFORMANCE_DEGRADATION")

\* C13: against a baseline average latency of 1000 ms, latencyMs = 3500
\* yields PERFORMANCE_DEGRADATION at severity high, latencyMs = 1600 yields
\* it at severity medium, and latencyMs = 1200 yields no latency finding.
C13_LatencySeverities ==
    /\ Classified(last, 3500) => LatencySeverities(last) = {"high"}
    /\ Classified(last, 1600) => LatencySeverities(last) = {"medium"}
    /\ Classified(last, 1200) => LatencySeverities(last) = {}

\* C13 as amended: against a baseline average latency of 1000 ms,
\* latencyMs = 3500 yields PERFORMANCE_DEGRADATION at severity medium, as
\* does 2501, latencyMs = 3501 yields it at severity high, and
\* latencyMs = 1600 and latencyMs = 1200 yield no latency finding.
C13_LatencySeveritiesByIncrease ==
    /\ Classified(last, 3501) => LatencySeverities(last) = {"high"}
    /\ Classified(last, 3500) => LatencySeverities(last) = {"medium"}
    /\ Classified(last, 2501) => LatencySeverities(last) = {"medium"}
    /\ Classified(last, 1600) => LatencySeverities(last) = {}
    /\ Classified(last, 1200) => LatencySeverities(last) = {}

C13_Witness ==
    /\ Classified(last, 3500)
    /\ LatencySeverities(last) = {"medium"}

\* A prompt in which detectPII or detectPromptInjection finds something.
Triggers(prompt) ==
    /\ TruthyText(prompt)
    /\ \/ detectPII(prompt, ZeroIndex).detected # << >>
       \/ detectPromptInjection(prompt)

\* C14: when handleRequest has recorded a request whose prompt contains PII
\* or an injection phrase, an open PII_IN_REQUEST or PROMPT_INJECTION
\* incident and its alert exist; and when handleResponse has returned for a
\* response that contains PII, a PII_LEAKAGE incident exists for it.
C14_RequestsAreEvaluated ==
    /\ (/\ last.op = "publishRequest"
        /\ last.ret = "ok"
        /\ Triggers(Val(last.call.data).prompt)) =>
           /\ \E k \in 1..Len(incidents) :
                 /\ incidents[k].type \in {"PII_IN_REQUEST", "PROMPT_INJECTION"}
                 /\ incidents[k].severity = "critical"
           /\ \E k \in 1..Len(published.alerts) :
                 published.alerts[k].key
                     \in {"PII_IN_REQUEST", "PROMPT_INJECTION"}
    /\ (/\ last.op \in {"publishResponse", "publishAnomaly"}
        /\ last.ret = "ok"
        /\ detectPII(Val(last.call.data).response, ZeroIndex).detected
               # << >>) =>
           \E k \in 1..Len(incidents) :
               /\ incidents[k].type = "PII_LEAKAGE"
               /\ incidents[k].requestId = Val(last.call.data).requestId

\* C15: when publishAnomaly has handled a finding and its publishes
\* resolved, the finding has been sent to the anomalies topic, whatever its
\* severity, and a finding of severity high or critical has been sent to the
\* alerts topic as well, any other to the anomalies topic only.
C15_EveryFindingIsAnAnomalyEvent ==
    [][(last'.op = "publishAnomaly" /\ ~last'.failed) =>
          LET f == Val(last'.finding)
              event == Event(f.type, Val(last'.call.data).requestId)
          IN /\ published'.anomalies = Append(published.anomalies, event)
             /\ published'.alerts =
                    IF f.severity \in {"high", "critical"}
                    THEN Append(published.alerts, event)
                    ELSE published.alerts
      ]_vars

\* C16: a read that runs while a handleResponse call is in flight never
\* finds that call's response retained with some but not all of the
\* incidents of its high and critical findings created.
C16_ReadsSeeWholeIngests ==
    last.op = "getRecentIncidents" =>
        \A i \in 1..Len(calls) :
            (calls[i].kind = "response" /\ calls[i].retained) =>
                calls[i].made \in {0, NumEscalating(calls[i].found)}

\* C17: once every handleRequest and handleResponse call has returned and
\* no publish was rejected, the retained requests are as many as the
\* handleRequest calls made, the retained responses as many as the
\* handleResponse calls made, and the incidents as many as the high and
\* critical findings of the responses; a handleResponse call that returns
\* has made one incident for each such finding of its response.
C17_NoLostRecords ==
    /\ (tally.rejected = 0 /\ calls = << >>) =>
           /\ Len(requests) = started.request
           /\ Len(responses) = started.response
           /\ Len(incidents) = tally.escalating
    /\ (last.op \in {"publishResponse", "publishAnomaly"} /\ last.ret = "ok")
           => last.call.made = NumEscalating(last.call.found)

C17_Witness ==
    /\ tally.rejected = 0
    /\ calls = << >>
    /\ started.request = MaxRequests
    /\ started.response = MaxResponses
    /\ Len(incidents) > 1
    /\ last.op = "publishRequest"

\* C18: no eachMessage call ends rejected, whatever the record and whatever
\* the sink answers, so consumer.run keeps handing out records: whenever no
\* handler is in progress every record consumed has been handled, and the
\* next one can be.
C18_ConsumeLoopGoesOn ==
    /\ consumer.running
    /\ \A n \in 1..Len(consumer.outcomes) : consumer.outcomes[n] = "fulfilled"
    /\ ~consumer.busy => Len(consumer.outcomes) = consumer.consumed
    /\ (~consumer.busy /\ consumer.consumed < MaxRecords)
           => \A record \in Records : ENABLED EachMessage(record)

C18_Witness ==
    /\ ~consumer.busy
    /\ consumer.consumed = MaxRecords
    /\ consumer.logged > 1
    /\ consumer.sink.metrics > 0
    /\ consumer.sink.events > 0

\* The order in which the rules are evaluated.
RuleOrder ==
    <<"PII_IN_REQUEST", "PII_LEAKAGE", "TOXIC_CONTENT", "PROMPT_INJECTION",
      "TOKEN_ANOMALY", "COST_ANOMALY", "PERFORMANCE_DEGRADATION",
      "HALLUCINATION", "ERROR_SPIKE">>

RuleIndex(type) == CHOOSE n \in 1..Len(RuleOrder) : RuleOrder[n] = type

\* Findings of the nine types, each type at most once, in rule order.
InRuleOrder(findings) ==
    /\ \A k \in 1..Len(findings) :
           \E n \in 1..Len(RuleOrder) : RuleOrder[n] = findings[k].type
    /\ \A j, k \in 1..Len(findings) :
           j < k => RuleIndex(findings[j].type) < RuleIndex(findings[k].type)

\* C19: analyzeMessage returns its findings in rule order, each type at most
\* once; publishAnomaly handles the findings of a response one after the
\* other in that order, and the incident and the alert of a finding are
\* appended after those of the findings before it.
C19_RuleOrder ==
    [][/\ last'.op = "analyzeMessage" => InRuleOrder(last'.list)
       /\ last'.op \in {"publishResponse", "publishAnomaly"}
              => InRuleOrder(last'.call.found)
       /\ last'.op = "publishAnomaly" =>
              LET f == Val(last'.finding)
                  at == IF last'.failed THEN last'.call.done + 1
                        ELSE last'.call.done
              IN /\ last'.call.found[at] = f
                 /\ (~last'.failed /\ Escalates(f.severity)) =>
                        /\ Len(incidents') = Len(incidents) + 1
                        /\ SubSeq(incidents', 1, Len(incidents)) = incidents
                        /\ incidents'[Len(incidents')].type = f.type
                        /\ Len(published'.alerts) = Len(published.alerts) + 1
                        /\ SubSeq(published'.alerts, 1, Len(published.alerts))
                               = published.alerts
                        /\ published'.alerts[Len(published'.alerts)].key
                               = f.type
      ]_vars

C19_Witness ==
    /\ last.op = "publishAnomaly"
    /\ last.ret = "ok"
    /\ Len(last.call.found) = Len(RuleOrder)
    /\ Len(incidents) = Len(RuleOrder) - 1
    /\ \A j, k \in 1..Len(incidents) :
           j < k => RuleIndex(incidents[j].type) < RuleIndex(incidents[k].type)

C21_CostAnalyticsIsPureRead ==
    [][last'.op = "getCostAnalytics" =>
          /\ UNCHANGED <<requests, responses, incidents>>
          /\ last.op = "getCostAnalytics" => last'.result = last.result
      ]_vars

C21_Witness ==
    /\ last.op = "getCostAnalytics"
    /\ last.val = MaxReads
    /\ Len(requests) > 1
    /\ Cardinality(DOMAIN Val(last.result).costByUser) > 1
    /\ incidents # << >>

\* The request and the response of the scenario.
ScenarioRequest(request) ==
    /\ request.userId = "u1"
    /\ request.model = "gpt-x"
    /\ request.cost = 1
    /\ ~Triggers(request.prompt)

ScenarioResponse(data, request) ==
    data = RouteData(Some(request.requestId), Some(TextBenign), Some(500),
                     Some(90))

\* C22: when one request with cost 1 and a prompt without trigger is
\* retained and handleResponse returns for the only response, which is for
\* that request, with benign text, latencyMs 500 and confidenceScore 0.9,
\* there are no findings, anomalyCount is 0 and there are no incidents; a
\* getCostAnalytics call with that request retained reports totalCost = 1;
\* and a handleResponse call whose response triggers no rule leaves the
\* incidents as they were.
C22_BenignScenario ==
    [][/\ (/\ last'.op = "publishResponse"
           /\ ~last'.failed
           /\ Len(requests') = 1
           /\ ScenarioRequest(requests'[1])
           /\ Len(responses') = 1
           /\ ScenarioResponse(Val(last'.call.data), requests'[1])) =>
              /\ last'.call.found = << >>
              /\ last'.ret = "ok"
              /\ last'.val = 0
              /\ incidents' = << >>
       /\ (/\ last'.op = "getCostAnalytics"
           /\ Len(requests') = 1
           /\ ScenarioRequest(requests'[1])) =>
              LET totalCost == Val(last'.result).totalCost
              IN totalCost.num = 1 * totalCost.den
       /\ (/\ last'.op = "publishResponse"
           /\ ~last'.failed
           /\ last'.call.found = << >>) =>
              /\ last'.ret = "ok"
              /\ incidents' = incidents
      ]_vars

C22_Witness ==
    /\ last.op = "getCostAnalytics"
    /\ Len(requests) = 1
    /\ ScenarioRequest(requests[1])
    /\ Len(responses) = 1
    /\ responses[1].requestId = Some(requests[1].requestId)
    /\ responses[1].latencyMs = Some(500)
    /\ published.responses # << >>
    /\ calls = << >>
    /\ incidents = << >>
    /\ Val(last.result).totalCost = ToFixed(1, 1, 2)

\* C22, its general part: a response that triggers no rule is recorded while
\* incidents of an earlier response are retained.
C22_WitnessAfterIncident ==
    /\ last.op = "publishResponse"
    /\ last.ret = "ok"
    /\ last.call.found = << >>
    /\ incidents # << >>

\* C23: when handleResponse returns, its anomalyCount is the number of
\* findings analyzeMessage returned for the response, and all of them have
\* been handled.  The records a call creates carry its requestId: when no
\* other retained response has that requestId, the number of findings is the
\* number of incidents with it plus the number of anomaly events with it,
\* and there is one alert with it for each such incident.
C23_AnomalyCount ==
    (last.op \in {"publishResponse", "publishAnomaly"} /\ last.ret = "ok") =>
        LET requestId == Val(last.call.data).requestId
            mine(s) == Cardinality({k \in 1..Len(s) : s[k].requestId = requestId})
        IN /\ last.val = Len(last.call.found)
           /\ last.call.done = Len(last.call.found)
           /\ mine(responses) = 1 =>
                  /\ Len(last.call.found)
                         = mine(incidents) + mine(published.anomalies)
                  /\ mine(published.alerts) = mine(incidents)

C23_Witness ==
    /\ last.op = "publishAnomaly"
    /\ last.ret = "ok"
    /\ last.val = Len(RuleOrder)
    /\ Len(published.anomalies) = 1
    /\ Len(incidents) = Len(RuleOrder) - 1

\* What the token-usage rule is to produce for a token count against an
\* average: the severities of its findings.
TokenSeverities(tokenCount, avgTokenCount) ==
    IF ~TruthyNum(avgTokenCount) THEN {}
    ELSE LET t == Val(tokenCount)
             a == Val(avgTokenCount)
         IN IF t - a > 2 * a THEN {"high"}
            ELSE IF 2 * (t - a) > 3 * a THEN {"medium"}
            ELSE {}

\* C24: analyzeMessage produces a TOKEN_ANOMALY of severity high when
\* (tokenCount - avgTokenCount) / avgTokenCount > 2.0, of severity medium
\* when that ratio is > 1.5 and <= 2.0, and none otherwise or when the
\* average is zero or undefined; and publishAnomaly creates an incident for
\* a TOKEN_ANOMALY of a response whose ratio is > 2.0 and none for a medium
\* one.
C24_TokenSeverities ==
    [][/\ (last'.op = "analyzeMessage" /\ IsSome(Val(last'.input).tokenCount)) =>
              Severities(last'.list, "TOKEN_ANOMALY")
                  = TokenSeverities(Val(last'.input).tokenCount,
                                    Val(last'.input).avgTokenCount)
       /\ (/\ last'.op = "publishAnomaly"
           /\ ~last'.failed
           /\ Val(last'.finding).type = "TOKEN_ANOMALY") =>
              LET data == Val(last'.call.data)
                  expected == TokenSeverities(data.tokenCount,
                                              data.avgTokenCount)
              IN /\ expected = {"high"}
                     => Len(incidents') = Len(incidents) + 1
                 /\ expected = {"medium"} => incidents' = incidents
      ]_vars

\* C25: whatever the baseline, also when the average is zero or absent,
\* analyzeMessage produces a COST_ANOMALY of severity high for a cost above
\* 50 and a PERFORMANCE_DEGRADATION of severity high for a latency above
\* 30000 ms.
C25_AbsoluteThresholds ==
    last.op = "analyzeMessage" =>
        LET message == Val(last.input)
        IN /\ (IsSome(message.cost) /\ Val(message.cost) > CostThreshold) =>
                  Severities(last.list, "COST_ANOMALY") = {"high"}
           /\ (/\ IsSome(message.latencyMs)
               /\ Val(message.latencyMs) > LatencyTimeoutMs) =>
                  Severities(last.list, "PERFORMANCE_DEGRADATION") = {"high"}

\* The findings that are not of the given type, in order.
Without(findings, type) == SelectSeq(findings, LAMBDA f : f.type # type)

\* The step is an analyzeMessage call that returned no finding of the given
\* type and, of the other types, the findings it returns for the message
\* given, in which the absent field has a value that does not trigger.
SkipsRule(step, type, message, li) ==
    /\ step.ret = "ok"
    /\ Positions(step.list, type) = {}
    /\ Without(step.list, type)
           = Without(analyzeMessage(message, li).anomalies, type)

\* C26: analyzeMessage returns for a message without confidenceScore,
\* without cost, without latencyMs or without tokenCount; it then returns
\* no HALLUCINATION, no COST_ANOMALY, no PERFORMANCE_DEGRADATION and no
\* TOKEN_ANOMALY finding respectively, and the findings of the other rules
\* are those of the same message with the field present and not triggering.
C26_AbsentFieldsSkipRules ==
    [][last'.op = "analyzeMessage" =>
          LET message == Val(last'.input)
          IN /\ last'.ret = "ok"
             /\ ~IsSome(message.confidenceScore) =>
                    SkipsRule(last', "HALLUCINATION",
                              [message EXCEPT !.confidenceScore = Some(90)],
                              lastIndex)
             /\ ~IsSome(message.cost) =>
                    SkipsRule(last', "COST_ANOMALY",
                              [message EXCEPT !.cost = Some(0)], lastIndex)
             /\ ~IsSome(message.latencyMs) =>
                    SkipsRule(last', "PERFORMANCE_DEGRADATION",
                              [message EXCEPT !.latencyMs = Some(0)], lastIndex)
             /\ ~IsSome(message.tokenCount) =>
                    SkipsRule(last', "TOKEN_ANOMALY",
                              [message EXCEPT !.tokenCount = Some(0)],
                              lastIndex)
      ]_vars

C26_Witness ==
    /\ last.op = "analyzeMessage"
    /\ Val(last.input) = [FullMessage EXCEPT !.latencyMs = None]
    /\ Len(last.list) = Len(RuleOrder) - 1

\* Sum of latencyMs over the responses at the given indices.
RECURSIVE LatencyOver(_, _)
LatencyOver(resps, idx) ==
    IF idx = {} THEN 0
    ELSE LET k == CHOOSE k \in idx : TRUE
         IN Val(resps[k].latencyMs) + LatencyOver(resps, idx \ {k})

\* The mean latencyMs over the responses that have a non-zero latency, 0
\* when none has one.
MeanLatency(resps) ==
    LET idx == {k \in 1..Len(resps) :
                   IsSome(resps[k].latencyMs) /\ Val(resps[k].latencyMs) # 0}
    IN IF idx = {} THEN Rat(0, 1)
       ELSE Rat(LatencyOver(resps, idx), Cardinality(idx))

\* C27: when handleResponse classifies a response, the response has been
\* appended to the retained responses, and the avgLatencyMs of the message
\* classified is the mean latencyMs over the retained responses that have a
\* non-zero latency, that response included, and 0 when none has one,
\* whatever avgLatencyMs the caller supplied; the latency finding is the one
\* that mean gives.
C27_BaselineFromRetainedResponses ==
    [][(last'.op = "publishResponse" /\ ~last'.failed) =>
          LET data == Val(last'.call.data)
              mean == MeanLatency(responses')
              baseline == last'.call.baseline
              verdict == analyzeLatencyAnomaly(Val(data.latencyMs), mean)
          IN /\ Len(responses') = Len(responses) + 1
             /\ SubSeq(responses', 1, Len(responses)) = responses
             /\ responses'[Len(responses')].latencyMs = data.latencyMs
             /\ IsSome(baseline)
             /\ Val(baseline).num * mean.den = mean.num * Val(baseline).den
             /\ IsSome(data.latencyMs) =>
                    Severities(last'.call.found, "PERFORMANCE_DEGRADATION")
                        = IF verdict.isAnomaly
                          THEN {SeverityOr(verdict, "high")} ELSE {}
      ]_vars

C27_Witness ==
    /\ last.op = "publishResponse"
    /\ ~last.failed
    /\ Len(responses) = MaxRecorded
    /\ Val(last.call.data).avgLatencyMs = Some(Rat(10, 1))
    /\ last.call.baseline = Some(Rat(6500, 2))
    /\ \E k \in 1..Len(responses) : responses[k].latencyMs = Some(0)
    /\ Severities(last.call.found, "PERFORMANCE_DEGRADATION") = {}

\* C27: three retained responses with a latency, the last of them more than
\* 1.5 times their mean above it.
C27_WitnessMedium ==
    /\ last.op = "publishResponse"
    /\ last.call.baseline = Some(Rat(7000, 3))
    /\ Severities(last.call.found, "PERFORMANCE_DEGRADATION") = {"medium"}

\* C28: a response posted with a requestId and a text is accepted whether
\* or not a retained request has that requestId, and recorded when its
\* publish resolves; every incident and every alert publishAnomaly creates
\* carries the requestId of the response being handled, so every retained
\* incident has the requestId of a retained response.
C28_RequestIdCarriedNotChecked ==
    [][/\ (/\ last'.op = "postResponse"
           /\ IsSome(Val(last'.input).requestId)
           /\ TruthyText(Val(last'.input).response)) =>
              /\ last'.ret # "rejected"
              /\ Len(calls') = Len(calls) + 1
              /\ calls'[Len(calls')].data = Val(last'.input)
       /\ (last'.op = "publishResponse" /\ ~last'.failed) =>
              /\ last'.call.retained
              /\ responses'[Len(responses')].requestId
                     = Val(last'.call.data).requestId
       /\ (/\ last'.op = "publishAnomaly"
           /\ ~last'.failed
           /\ Escalates(Val(last'.finding).severity)) =>
              /\ Len(incidents') = Len(incidents) + 1
              /\ incidents'[Len(incidents')].requestId
                     = Val(last'.call.data).requestId
              /\ Len(published'.alerts) = Len(published.alerts) + 1
              /\ published'.alerts[Len(published'.alerts)].requestId
                     = Val(last'.call.data).requestId
       /\ \A k \in 1..Len(incidents') :
              \E j \in 1..Len(responses') :
                  responses'[j].requestId = incidents'[k].requestId
      ]_vars

C28_Witness ==
    /\ last.op = "publishAnomaly"
    /\ last.ret = "ok"
    /\ requests # << >>
    /\ \A k \in 1..Len(requests) :
           Some(requests[k].requestId) # Val(last.call.data).requestId
    /\ Len(incidents) > 1
    /\ \A k \in 1..Len(incidents) :
           incidents[k].requestId = Val(last.call.data).requestId

\* C28: an incident for a response whose requestId is that of a retained
\* request.
C28_WitnessMatched ==
    /\ last.op = "publishAnomaly"
    /\ last.ret = "ok"
    /\ incidents # << >>
    /\ \E k \in 1..Len(requests) :
           Some(requests[k].requestId) = incidents[1].requestId

\* C29: a getRecentIncidents call leaves the retained incidents as they
\* were, in the same order.
C29_ReadKeepsStoreOrder ==
    [][last'.op = "getRecentIncidents" => incidents' = incidents]_vars

\* C30: a closeIncident call leaves every incident with another id as it
\* was, and leaves the closedAt and the resolution of an incident that is
\* already closed as they were, so the time to repair of a closed incident
\* never changes.
C30_ClosedIsTerminal ==
    [][last'.op = "closeIncident" =>
          /\ Len(incidents') = Len(incidents)
          /\ \A k \in 1..Len(incidents) :
                 /\ incidents[k].id # last'.val => incidents'[k] = incidents[k]
                 /\ incidents[k].status = "closed" =>
                        /\ incidents'[k].closedAt = incidents[k].closedAt
                        /\ incidents'[k].resolution = incidents[k].resolution
      ]_vars

\* The snapshot getSafetyMetrics returns agrees with the incidents retained:
\* its two severity counts add up to the total, and its open count and the
\* number of closed incidents add up to the total.
SnapshotConsistent(m, incs) ==
    LET closed == Cardinality({k \in 1..Len(incs) : incs[k].status = "closed"})
    IN /\ m.criticalIncidents + m.highIncidents = m.totalIncidents
       /\ 0 <= m.openIncidents
       /\ m.openIncidents <= m.totalIncidents
       /\ m.openIncidents + closed = m.totalIncidents

\* C31: in every state the snapshot of getSafetyMetrics is consistent
\* (criticalIncidents + highIncidents = totalIncidents, openIncidents lies
\* between 0 and totalIncidents, openIncidents plus the number of closed
\* incidents is totalIncidents), and no step makes totalIncidents smaller.
C31_SnapshotConsistent ==
    [][/\ SnapshotConsistent(getSafetyMetrics, incidents)
       /\ SnapshotConsistent(getSafetyMetrics', incidents')
       /\ getSafetyMetrics'.totalIncidents >= getSafetyMetrics.totalIncidents
      ]_vars

\* A critical and a high incident are retained, and of the incidents
\* retained at least one is open and at least one is closed.
C31_Witness ==
    /\ getSafetyMetrics.criticalIncidents > 0
    /\ getSafetyMetrics.highIncidents > 0
    /\ getSafetyMetrics.openIncidents > 0
    /\ getSafetyMetrics.openIncidents < getSafetyMetrics.totalIncidents

\* A finding of medium severity was handled and made no incident.
C31_WitnessMedium ==
    /\ last.op = "publishAnomaly"
    /\ last.ret = "ok"
    /\ IsSome(last.finding)
    /\ Val(last.finding).severity = "medium"
    /\ getSafetyMetrics.totalIncidents = 0

\* How many elements of s carry the requestId.
CountOf(s, requestId) ==
    Cardinality({k \in 1..Len(s) : s[k].requestId = requestId})

\* How many elements of s carry the type (the key of an alert) and the
\* requestId.
CountOfType(s, type, requestId) ==
    Cardinality({k \in 1..Len(s) :
                    /\ (IF "key" \in DOMAIN s[k] THEN s[k].key ELSE s[k].type)
                           = type
                    /\ s[k].requestId = requestId})

\* Every retained request, response and incident has its event on its
\* topic: no more are retained than were published, in all and for each
\* requestId (and type of finding).
NotAheadOfTransport ==
    /\ Len(requests) <= Len(published.requests)
    /\ Len(responses) <= Len(published.responses)
    /\ Len(incidents) <= Len(published.alerts)
    /\ \A k \in 1..Len(requests) :
           Cardinality({j \in 1..Len(requests) :
                           requests[j].requestId = requests[k].requestId})
               <= CountOf(published.requests, Some(requests[k].requestId))
    /\ \A k \in 1..Len(responses) :
           CountOf(responses, responses[k].requestId)
               <= CountOf(published.responses, responses[k].requestId)
    /\ \A k \in 1..Len(incidents) :
           CountOfType(incidents, incidents[k].type, incidents[k].requestId)
               <= CountOfType(published.alerts, incidents[k].type,
                              incidents[k].requestId)

\* C32: retained state never runs ahead of the transport.  In every state
\* each retained request, response and incident has its published event,
\* so the alerts published are at least as many as the incidents; a step
\* that retains a request, a response or an incident is the step in which
\* its publish succeeded, and a step in which a publish is rejected retains
\* nothing.
C32_RetainedAfterPublished ==
    [][/\ NotAheadOfTransport
       /\ NotAheadOfTransport'
       /\ Len(requests') > Len(requests) =>
              /\ last'.op = "publishRequest" /\ ~last'.failed
              /\ Len(published'.requests) = Len(published.requests) + 1
              /\ published'.requests[Len(published'.requests)].requestId
                     = Some(requests'[Len(requests')].requestId)
       /\ Len(responses') > Len(responses) =>
              /\ last'.op = "publishResponse" /\ ~last'.failed
              /\ Len(published'.responses) = Len(published.responses) + 1
              /\ published'.responses[Len(published'.responses)].requestId
                     = responses'[Len(responses')].requestId
       /\ Len(incidents') > Len(incidents) =>
              /\ last'.op = "publishAnomaly" /\ ~last'.failed
              /\ Len(published'.alerts) = Len(published.alerts) + 1
              /\ published'.alerts[Len(published'.alerts)]
                     = Event(incidents'[Len(incidents')].type,
                             incidents'[Len(incidents')].requestId)
       /\ last'.failed =>
              /\ Len(requests') = Len(requests)
              /\ Len(responses') = Len(responses)
              /\ Len(incidents') = Len(incidents)
              /\ published' = published
      ]_vars

\* The alert of a finding that should alert was just rejected, after the
\* alert of an earlier finding of the same response was published and its
\* incident retained, with a request retained as well.
C32_Witness ==
    /\ last.op = "publishAnomaly"
    /\ last.failed
    /\ IsSome(last.finding)
    /\ Escalates(Val(last.finding).severity)
    /\ Len(incidents) = 1
    /\ Len(published.alerts) = 1
    /\ Len(responses) = 1
    /\ requests # << >>

\* A request's publish was just rejected while another request is retained.
C32_WitnessRequest ==
    /\ last.op = "publishRequest"
    /\ last.failed
    /\ Len(requests) = 1
    /\ Len(published.requests) = 1
    /\ nextId.request > 2

====
